---------------------------- MODULE Spec2Model ----------------------------
(***************************************************************************)
(* Spiritual Path Assessment (src/app.py): the scoring engine              *)
(* calculate_results and the request handlers that call it.                *)
(*                                                                         *)
(* Five specifications:                                                    *)
(*   Spec          one call calculate_results(answers), for every bank of  *)
(*                 Banks and every answer list up to MaxAnswers; the       *)
(*                 variables answers .. recommendations are the argument   *)
(*                 and the locals of that call                             *)
(*   SpecHandlers  the routes login, logout, submit_assessment and         *)
(*                 reset_assessment over the session and the two user      *)
(*                 stores; submit_assessment evaluates calculate_results   *)
(*                 itself and stores what it returns                       *)
(*   SpecInterleaved  two invocations of calculate_results running at the  *)
(*                 same time, one step per loop iteration, each on the     *)
(*                 accumulators it allocated                               *)
(*   SpecShipped   one call calculate_results(answers) against the shipped *)
(*                 QUESTIONS                                               *)
(*   SpecUsersFile two workers serving legacy signup, submit_assessment    *)
(*                 and reset_assessment requests at the same time, one     *)
(*                 step per load_users and per save_users                  *)
(*                                                                         *)
(* Python values are modelled as follows.                                  *)
(*   dict with insertion order (scores, points_map, options)               *)
(*       -> sequence of <<key, value>> pairs / of records, in order        *)
(*   dict whose order is never observed (coverage, TRADITION_ALIASES,      *)
(*       QUESTION_WEIGHTS, RELIGIONS, the users file) -> function          *)
(*   an answer {"question_id": .., "answer": ..} -> record; a field the    *)
(*       client left out is absent from the record's DOMAIN                *)
(*   None / missing session key -> NoValue                                 *)
(***************************************************************************)
EXTENDS Integers, Sequences, FiniteSets, TLC

VARIABLES
    QUESTIONS,            \* the question bank the process was started with
    answers,              \* the argument of the calculate_results call
    outcome,              \* "none" (not run yet) | "returned" | "KeyError"
    scores,               \* its local dict scores, as list(scores.items())
    coverage,             \* its local dict coverage
    max_possible_score,   \* its local max_possible_score
    sorted_scores,        \* its local sorted_scores
    recommendations,      \* the list it returned
    session,              \* the browser session: user_id and username
    users,                \* contents of USERS_FILE (legacy users)
    firestore,            \* Firestore collection 'users': uid -> document
    response,             \* JSON body of the last handler response
    religions,            \* the module-level dict RELIGIONS, as it is now
    calls,                \* SpecInterleaved: the frames of the two invocations
    requests              \* SpecUsersFile: the requests the two workers serve

vars == <<QUESTIONS, answers, outcome, scores, coverage, max_possible_score,
          sorted_scores, recommendations, session, users, firestore, response,
          religions, calls, requests>>

engineVars == <<answers, outcome, scores, coverage, max_possible_score,
                sorted_scores, recommendations>>

webVars == <<session, users, firestore, response, requests>>

(***************************************************************************)
(* Bounds                                                                  *)
(***************************************************************************)
\* longest answer list handed to calculate_results / posted to a handler
MaxAnswers == 3

(***************************************************************************)
(* Static tables of src/app.py                                             *)
(***************************************************************************)
TRADITION_ALIASES ==
    ("secular" :> "humanism") @@
    ("secularism" :> "humanism") @@
    ("spiritualism" :> "spiritual_not_religious") @@
    ("wicca" :> "paganism") @@
    ("zen" :> "buddhism") @@
    ("pantheism" :> "paganism") @@
    ("unitarian" :> "spiritual_not_religious") @@
    ("deism" :> "agnosticism")

\* TRADITION_ALIASES.get(key, key)
canon(key) ==
    IF key \in DOMAIN TRADITION_ALIASES THEN TRADITION_ALIASES[key] ELSE key

QUESTION_WEIGHTS ==
    (1 :> 5) @@ (2 :> 3) @@ (3 :> 4) @@ (4 :> 4) @@ (5 :> 3) @@
    (6 :> 3) @@ (7 :> 3) @@ (8 :> 3) @@ (9 :> 2)

\* The descriptor table. Only the display name is kept: description,
\* practices and core_beliefs are constant strings copied through unchanged.
RELIGIONS ==
    ("christianity" :> [name |-> "Christianity"]) @@
    ("islam" :> [name |-> "Islam"]) @@
    ("buddhism" :> [name |-> "Buddhism"]) @@
    ("hinduism" :> [name |-> "Hinduism"]) @@
    ("judaism" :> [name |-> "Judaism"]) @@
    ("taoism" :> [name |-> "Taoism"]) @@
    ("paganism" :> [name |-> "Modern Paganism"]) @@
    ("humanism" :> [name |-> "Secular Humanism"]) @@
    ("atheism" :> [name |-> "Atheism"]) @@
    ("agnosticism" :> [name |-> "Agnosticism"]) @@
    ("new_age" :> [name |-> "New Age Spirituality"]) @@
    ("spiritual_not_religious" :> [name |-> "Spiritual But Not Religious"]) @@
    ("sikhism" :> [name |-> "Sikhism"]) @@
    ("indigenous" :> [name |-> "Indigenous Spirituality"]) @@
    ("jainism" :> [name |-> "Jainism"]) @@
    ("shintoism" :> [name |-> "Shinto"]) @@
    ("stoicism" :> [name |-> "Stoicism"]) @@
    ("confucianism" :> [name |-> "Confucianism"])

(***************************************************************************)
(* Question banks.  QUESTIONS is a list of {"id", "question", "options"}   *)
(* where options maps a label to a points_map {raw key: base points}.      *)
(* The banks below have that shape; they are the sub-lists of three        *)
(* questions chosen so that alias keys (wicca, zen), a question id without *)
(* a QUESTION_WEIGHTS entry (10), a key without a RELIGIONS entry          *)
(* (zoroastrianism), ties and more than three scored traditions all occur. *)
(* Option "B" of question 1 is the first option of the shipped question 1. *)
(***************************************************************************)
QuestionPool == <<
    [id |-> 1, options |-> <<
        [label |-> "A", points_map |-> << <<"islam", 3>>, <<"buddhism", 2>> >>],
        [label |-> "B", points_map |-> << <<"christianity", 5>>, <<"islam", 5>>,
                                          <<"judaism", 5>>, <<"sikhism", 4>> >>] >>],
    [id |-> 2, options |-> <<
        [label |-> "A", points_map |-> << <<"wicca", 3>>, <<"paganism", 2>> >>],
        [label |-> "B", points_map |-> << <<"zoroastrianism", 3>>,
                                          <<"hinduism", 1>> >>] >>],
    [id |-> 10, options |-> <<
        [label |-> "A", points_map |-> << <<"zen", 5>> >>],
        [label |-> "B", points_map |-> << <<"taoism", 3>> >>] >> ] >>

(***************************************************************************)
(* The shipped question bank: QUESTIONS of src/app.py with its nine        *)
(* questions, option labels and point maps (the question texts are left    *)
(* out, nothing reads them).                                               *)
(***************************************************************************)
QUESTIONS_shipped == <<
    [id |-> 1, options |-> <<
        [label |-> "One supreme God who created everything",
         points_map |-> << <<"christianity", 5>>, <<"islam", 5>>, <<"judaism", 5>>, <<"sikhism", 4>> >>],
        [label |-> "Multiple gods and goddesses",
         points_map |-> << <<"hinduism", 5>>, <<"paganism", 5>>, <<"shintoism", 3>> >>],
        [label |-> "A universal energy or force",
         points_map |-> << <<"taoism", 5>>, <<"buddhism", 4>>, <<"new_age", 4>>, <<"spiritual_not_religious", 3>> >>],
        [label |-> "No divine being, focus on human potential",
         points_map |-> << <<"humanism", 5>>, <<"atheism", 5>>, <<"stoicism", 3>>, <<"confucianism", 2>> >>],
        [label |-> "Uncertain or unknowable",
         points_map |-> << <<"agnosticism", 5>>, <<"spiritual_not_religious", 2>> >>] >>],
    [id |-> 2, options |-> <<
        [label |-> "Through organized worship and community",
         points_map |-> << <<"christianity", 4>>, <<"islam", 4>>, <<"judaism", 4>>, <<"sikhism", 3>> >>],
        [label |-> "Through personal meditation and reflection",
         points_map |-> << <<"buddhism", 5>>, <<"hinduism", 4>>, <<"taoism", 4>>, <<"jainism", 4>> >>],
        [label |-> "Through nature and natural cycles",
         points_map |-> << <<"paganism", 5>>, <<"indigenous", 5>>, <<"shintoism", 4>> >>],
        [label |-> "Through reason and philosophy",
         points_map |-> << <<"stoicism", 5>>, <<"humanism", 4>>, <<"confucianism", 3>> >>],
        [label |-> "I don't feel the need for spiritual connection",
         points_map |-> << <<"atheism", 5>>, <<"humanism", 2>> >>] >>],
    [id |-> 3, options |-> <<
        [label |-> "Heaven or Hell based on faith/deeds",
         points_map |-> << <<"christianity", 5>>, <<"islam", 5>>, <<"judaism", 3>> >>],
        [label |-> "Reincarnation until enlightenment",
         points_map |-> << <<"hinduism", 5>>, <<"buddhism", 5>>, <<"jainism", 4>>, <<"sikhism", 3>> >>],
        [label |-> "Ancestral realm or spiritual world",
         points_map |-> << <<"indigenous", 4>>, <<"paganism", 3>>, <<"shintoism", 3>>, <<"confucianism", 2>> >>],
        [label |-> "No afterlife, this life is all there is",
         points_map |-> << <<"atheism", 5>>, <<"humanism", 4>>, <<"stoicism", 2>> >>],
        [label |-> "Unsure or open to possibilities",
         points_map |-> << <<"agnosticism", 4>>, <<"new_age", 3>>, <<"spiritual_not_religious", 3>> >>] >>],
    [id |-> 4, options |-> <<
        [label |-> "Sacred texts and religious teachings",
         points_map |-> << <<"islam", 5>>, <<"christianity", 5>>, <<"judaism", 5>>, <<"sikhism", 3>> >>],
        [label |-> "Universal principles of compassion and mindfulness",
         points_map |-> << <<"buddhism", 5>>, <<"jainism", 5>>, <<"hinduism", 3>> >>],
        [label |-> "Harmony with nature and balance",
         points_map |-> << <<"taoism", 5>>, <<"indigenous", 4>>, <<"shintoism", 3>>, <<"paganism", 3>> >>],
        [label |-> "Reason, empathy, and human rights",
         points_map |-> << <<"humanism", 5>>, <<"atheism", 3>>, <<"stoicism", 3>> >>],
        [label |-> "Personal intuition and inner wisdom",
         points_map |-> << <<"spiritual_not_religious", 5>>, <<"new_age", 4>> >>],
        [label |-> "Virtue, duty, and social harmony",
         points_map |-> << <<"confucianism", 5>>, <<"stoicism", 4>> >>] >>],
    [id |-> 5, options |-> <<
        [label |-> "Structured daily prayers at set times (e.g., 5 times daily)",
         points_map |-> << <<"islam", 5>>, <<"sikhism", 3>> >>],
        [label |-> "Regular personal prayer and church attendance",
         points_map |-> << <<"christianity", 5>>, <<"judaism", 4>> >>],
        [label |-> "Daily meditation or mindfulness practice",
         points_map |-> << <<"buddhism", 5>>, <<"hinduism", 4>>, <<"jainism", 4>> >>],
        [label |-> "Occasional prayer or reflection when needed",
         points_map |-> << <<"christianity", 2>>, <<"judaism", 2>>, <<"spiritual_not_religious", 3>>, <<"new_age", 2>> >>],
        [label |-> "Meditation for inner peace, not religious practice",
         points_map |-> << <<"stoicism", 3>>, <<"humanism", 2>>, <<"buddhism", 2>> >>],
        [label |-> "I don't pray or meditate",
         points_map |-> << <<"atheism", 4>>, <<"humanism", 3>> >>] >>],
    [id |-> 6, options |-> <<
        [label |-> "Essential - weekly services and holy day observances",
         points_map |-> << <<"christianity", 4>>, <<"islam", 4>>, <<"judaism", 5>>, <<"hinduism", 3>> >>],
        [label |-> "Important - seasonal celebrations and nature rituals",
         points_map |-> << <<"paganism", 5>>, <<"indigenous", 5>>, <<"shintoism", 4>> >>],
        [label |-> "Helpful - personal rituals that feel meaningful",
         points_map |-> << <<"new_age", 4>>, <<"spiritual_not_religious", 4>>, <<"hinduism", 2>> >>],
        [label |-> "Minimal - prefer contemplation and philosophy",
         points_map |-> << <<"stoicism", 4>>, <<"humanism", 3>>, <<"confucianism", 2>>, <<"agnosticism", 2>> >>],
        [label |-> "None - I don't practice rituals",
         points_map |-> << <<"atheism", 4>>, <<"humanism", 2>> >>] >>],
    [id |-> 7, options |-> <<
        [label |-> "Humans are stewards of God's creation",
         points_map |-> << <<"christianity", 4>>, <<"islam", 4>>, <<"judaism", 4>> >>],
        [label |-> "All life is interconnected and sacred",
         points_map |-> << <<"buddhism", 5>>, <<"hinduism", 4>>, <<"jainism", 5>>, <<"indigenous", 4>> >>],
        [label |-> "Nature itself is divine and should be revered",
         points_map |-> << <<"paganism", 5>>, <<"indigenous", 4>>, <<"shintoism", 5>>, <<"taoism", 3>> >>],
        [label |-> "Nature follows natural laws we can study",
         points_map |-> << <<"atheism", 4>>, <<"humanism", 4>>, <<"stoicism", 2>> >>],
        [label |-> "We should live in harmony with natural flow",
         points_map |-> << <<"taoism", 5>>, <<"buddhism", 3>>, <<"shintoism", 3>>, <<"indigenous", 3>> >>] >>],
    [id |-> 8, options |-> <<
        [label |-> "A test of faith or part of God's plan",
         points_map |-> << <<"christianity", 4>>, <<"islam", 4>>, <<"judaism", 3>> >>],
        [label |-> "Result of attachment, desire, and ignorance",
         points_map |-> << <<"buddhism", 5>>, <<"stoicism", 3>>, <<"jainism", 3>> >>],
        [label |-> "Karma from past actions and choices",
         points_map |-> << <<"hinduism", 5>>, <<"sikhism", 4>>, <<"buddhism", 3>>, <<"jainism", 3>> >>],
        [label |-> "Natural part of life without cosmic meaning",
         points_map |-> << <<"atheism", 5>>, <<"humanism", 3>>, <<"stoicism", 2>> >>],
        [label |-> "An opportunity for spiritual growth",
         points_map |-> << <<"new_age", 4>>, <<"spiritual_not_religious", 3>>, <<"christianity", 2>> >>],
        [label |-> "To be accepted with virtue and equanimity",
         points_map |-> << <<"stoicism", 5>>, <<"buddhism", 2>>, <<"confucianism", 2>> >>] >>],
    [id |-> 9, options |-> <<
        [label |-> "Very important - prefer group worship and fellowship",
         points_map |-> << <<"christianity", 4>>, <<"islam", 4>>, <<"sikhism", 5>>, <<"judaism", 4>> >>],
        [label |-> "Somewhat important - personal practice matters more",
         points_map |-> << <<"buddhism", 3>>, <<"hinduism", 3>>, <<"taoism", 2>> >>],
        [label |-> "Community of like-minded spiritual seekers",
         points_map |-> << <<"paganism", 4>>, <<"spiritual_not_religious", 4>>, <<"new_age", 3>> >>],
        [label |-> "Not important - spirituality is deeply personal",
         points_map |-> << <<"spiritual_not_religious", 3>>, <<"agnosticism", 3>>, <<"taoism", 2>> >>],
        [label |-> "Prefer secular community over religious",
         points_map |-> << <<"humanism", 4>>, <<"atheism", 4>>, <<"stoicism", 2>> >>] >>] >>

RECURSIVE SubSeqs(_)
\* every sub-list of s (order kept)
SubSeqs(s) ==
    IF s = <<>> THEN { <<>> }
    ELSE LET rest == SubSeqs(Tail(s))
         IN  rest \cup { <<Head(s)>> \o r : r \in rest }

Banks == SubSeqs(QuestionPool) \ { <<>> }

NoValue == ""


(***************************************************************************)
(* calculate_results (src/app.py)                                          *)
(***************************************************************************)
HasField(answer, field) == field \in DOMAIN answer

\* [q for q in QUESTIONS if q["id"] == question_id]; next(.., None) is its
\* head, or None when it is empty
FindQuestion(bank, question_id) ==
    SelectSeq(bank, LAMBDA q : q.id = question_id)

OptionLabels(question) ==
    { question.options[i].label : i \in DOMAIN question.options }

\* question["options"][label]
PointsMap(question, label) ==
    question.options[CHOOSE i \in DOMAIN question.options :
                         question.options[i].label = label].points_map

\* answer["question_id"] is read while scanning a non-empty QUESTIONS, and
\* answer["answer"] only once a question was found: a missing key raises.
RaisesKeyError(bank, answer) ==
    IF ~HasField(answer, "question_id") THEN bank # <<>>
    ELSE /\ FindQuestion(bank, answer.question_id) # <<>>
         /\ ~HasField(answer, "answer")

\* question and answer["answer"] in question["options"]
Matched(bank, answer) ==
    /\ HasField(answer, "question_id")
    /\ FindQuestion(bank, answer.question_id) # <<>>
    /\ HasField(answer, "answer")
    /\ answer.answer \in OptionLabels(Head(FindQuestion(bank, answer.question_id)))

\* QUESTION_WEIGHTS.get(question_id, 1)
QuestionWeight(question_id) ==
    IF question_id \in DOMAIN QUESTION_WEIGHTS
    THEN QUESTION_WEIGHTS[question_id] ELSE 1

DictKeys(items) == { items[i][1] : i \in DOMAIN items }

\* d.get(key, default) on a dict given as its item list
DictGet(items, key, default) ==
    IF key \in DictKeys(items)
    THEN items[CHOOSE i \in DOMAIN items : items[i][1] = key][2]
    ELSE default

\* d[key] = value: an existing key keeps its position, a new key is appended
DictSet(items, key, value) ==
    IF key \in DictKeys(items)
    THEN [i \in DOMAIN items |->
             IF items[i][1] = key THEN <<key, value>> ELSE items[i]]
    ELSE Append(items, <<key, value>>)

\* mutant of AddScore: the entry is overwritten, not added to
AddScore_Overwrite(items, canonical_key, weighted_score) ==
    DictSet(items, canonical_key, weighted_score)

\* scores[canonical_key] = scores.get(canonical_key, 0) + weighted_score
AddScore(items, canonical_key, weighted_score) ==
    DictSet(items, canonical_key, DictGet(items, canonical_key, 0) + weighted_score)

RECURSIVE ScorePoints(_, _, _, _)
\* for tradition_key, base_points in points_map.items(): ...
ScorePoints(points, question_weight, acc_scores, touched_this_question) ==
    IF points = <<>>
    THEN [scores |-> acc_scores, touched |-> touched_this_question]
    ELSE LET tradition_key == Head(points)[1]
             base_points == Head(points)[2]
             canonical_key == canon(tradition_key)
             weighted_score == base_points * question_weight
         IN  ScorePoints(Tail(points), question_weight,
                         AddScore(acc_scores, canonical_key, weighted_score),
                         touched_this_question \cup {canonical_key})

EmptyDict == [k \in {} |-> 0]

CoverageGet(cov, key) == IF key \in DOMAIN cov THEN cov[key] ELSE 0

\* for key in touched_this_question: coverage[key] = coverage.get(key, 0) + 1
AddCoverage(cov, touched_this_question) ==
    [key \in DOMAIN cov \cup touched_this_question |->
        IF key \in touched_this_question
        THEN CoverageGet(cov, key) + 1 ELSE cov[key]]

RECURSIVE ScoreAnswers_CoveragePerRawKey(_, _, _, _)
\* mutant of ScoreAnswers: coverage is raised once for every raw key of the
\* chosen option, not once for every canonical key it touched
ScoreAnswers_CoveragePerRawKey(bank, ans, acc_scores, acc_coverage) ==
    IF ans = <<>>
    THEN [scores |-> acc_scores, coverage |-> acc_coverage]
    ELSE LET answer == Head(ans)
         IN  IF Matched(bank, answer)
             THEN LET question == Head(FindQuestion(bank, answer.question_id))
                      points_map == PointsMap(question, answer.answer)
                      question_weight == QuestionWeight(answer.question_id)
                      step == ScorePoints(points_map, question_weight,
                                          acc_scores, {})
                      raw(key) == Cardinality({ j \in DOMAIN points_map :
                                                  canon(points_map[j][1]) = key })
                  IN  ScoreAnswers_CoveragePerRawKey(
                          bank, Tail(ans), step.scores,
                          [key \in DOMAIN acc_coverage \cup step.touched |->
                              CoverageGet(acc_coverage, key) + raw(key)])
             ELSE ScoreAnswers_CoveragePerRawKey(bank, Tail(ans), acc_scores,
                                                 acc_coverage)

RECURSIVE ScoreAnswers(_, _, _, _)
\* the first loop over answers (weighted scores and coverage)
ScoreAnswers(bank, ans, acc_scores, acc_coverage) ==
    IF ans = <<>>
    THEN [scores |-> acc_scores, coverage |-> acc_coverage]
    ELSE LET answer == Head(ans)
         IN  IF Matched(bank, answer)
             THEN LET question == Head(FindQuestion(bank, answer.question_id))
                      points_map == PointsMap(question, answer.answer)
                      question_weight == QuestionWeight(answer.question_id)
                      step == ScorePoints(points_map, question_weight,
                                          acc_scores, {})
                  IN  ScoreAnswers(bank, Tail(ans), step.scores,
                                   AddCoverage(acc_coverage, step.touched))
             ELSE ScoreAnswers(bank, Tail(ans), acc_scores, acc_coverage)

MaxOf(S) == CHOOSE m \in S : \A x \in S : x <= m

\* max_option_points: the highest point value among all options of the
\* question (empty points maps are skipped, the running maximum starts at 0)
MaxOptionPoints(question) ==
    MaxOf({0} \cup UNION { { question.options[i].points_map[j][2] :
                                 j \in DOMAIN question.options[i].points_map } :
                             i \in DOMAIN question.options })

\* mutant of MaxPossibleOfAnswer: the maximum is taken over the chosen
\* option only
MaxPossibleOfAnswer_ChosenOption(bank, answer) ==
    IF Matched(bank, answer)
    THEN LET pm == PointsMap(Head(FindQuestion(bank, answer.question_id)),
                             answer.answer)
         IN  MaxOf({0} \cup { pm[j][2] : j \in DOMAIN pm })
                 * QuestionWeight(answer.question_id)
    ELSE 0

\* mutant of MaxPossibleOfAnswer: the question weight is left out
MaxPossibleOfAnswer_Unweighted(bank, answer) ==
    LET found == FindQuestion(bank, answer.question_id)
    IN  IF found # <<>> THEN MaxOptionPoints(Head(found)) ELSE 0

\* one iteration of the second loop: what the answer adds to max_possible_score
MaxPossibleOfAnswer(bank, answer) ==
    LET found == FindQuestion(bank, answer.question_id)
    IN  IF found # <<>>
        THEN MaxOptionPoints(Head(found)) * QuestionWeight(answer.question_id)
        ELSE 0

RECURSIVE MaxPossibleScore(_, _)
\* the second loop over answers
MaxPossibleScore(bank, ans) ==
    IF ans = <<>> THEN 0
    ELSE MaxPossibleOfAnswer(bank, Head(ans)) + MaxPossibleScore(bank, Tail(ans))

\* mutant of SortKeyGE: the sort key is the score alone
SortKeyGE_ScoreOnly(x, y, cov) == x[2] >= y[2]

\* mutant of SortKeyGE: an element passes the elements that tie with it (a
\* sort that is not stable)
SortKeyGE_Strict(x, y, cov) ==
    \/ x[2] > y[2]
    \/ x[2] = y[2] /\ CoverageGet(cov, x[1]) > CoverageGet(cov, y[1])

\* key=lambda x: (x[1], coverage.get(x[0], 0)), compared as tuples
SortKeyGE(x, y, cov) ==
    \/ x[2] > y[2]
    \/ x[2] = y[2] /\ CoverageGet(cov, x[1]) >= CoverageGet(cov, y[1])

RECURSIVE InsertSorted(_, _, _)
\* x goes behind every element whose key is >= its own
InsertSorted(sorted, x, cov) ==
    IF sorted = <<>> THEN <<x>>
    ELSE IF SortKeyGE(Head(sorted), x, cov)
         THEN <<Head(sorted)>> \o InsertSorted(Tail(sorted), x, cov)
         ELSE <<x>> \o sorted

RECURSIVE SortedDescending(_, _, _)
\* sorted(scores.items(), key=.., reverse=True): stable, descending
SortedDescending(items, cov, acc) ==
    IF items = <<>> THEN acc
    ELSE SortedDescending(Tail(items), cov, InsertSorted(acc, Head(items), cov))

\* (score / max_possible_score) * 100 is evaluated in IEEE-754 doubles. When
\* the exact value is q + 1/2 the double is q + 1/2 itself, except for the
\* quotients below, where it falls just above or just below (q < 200).
FloatTieAbove == {54, 122, 124}

FloatTieBelow == {57, 101, 103, 125, 127}

\* mutant of PythonRoundPercent: int() in place of round()
PythonRoundPercent_Truncate(score, max_possible) ==
    (100 * score) \div max_possible

\* round((score / max_possible_score) * 100): Python rounds an exact half to
\* the even neighbour
PythonRoundPercent(score, max_possible) ==
    LET n == 100 * score
        q == n \div max_possible
        r == n % max_possible
    IN  IF 2 * r < max_possible THEN q
        ELSE IF 2 * r > max_possible THEN q + 1
        ELSE IF q \in FloatTieAbove THEN q + 1
        ELSE IF q \in FloatTieBelow THEN q
        ELSE IF q % 2 = 0 THEN q ELSE q + 1

\* tradition_info["percentage"]
Percentage(score, max_possible) ==
    IF max_possible > 0 THEN PythonRoundPercent(score, max_possible) ELSE 0

\* RELIGIONS[tradition_key].copy() with "score" and "percentage" set
TraditionInfo(tradition_key, score, max_possible) ==
    [name |-> RELIGIONS[tradition_key].name,
     score |-> score,
     percentage |-> Percentage(score, max_possible)]

RECURSIVE BuildRecommendations_NoBreak(_, _, _)
\* mutant of BuildRecommendations: the loop never breaks
BuildRecommendations_NoBreak(ranked, max_possible, recs) ==
    IF ranked = <<>> THEN recs
    ELSE IF Head(ranked)[1] \in DOMAIN RELIGIONS
         THEN BuildRecommendations_NoBreak(
                  Tail(ranked), max_possible,
                  Append(recs, TraditionInfo(Head(ranked)[1], Head(ranked)[2],
                                             max_possible)))
         ELSE BuildRecommendations_NoBreak(Tail(ranked), max_possible, recs)

\* mutant of BuildRecommendations: sorted_scores[:3] is cut before the keys
\* without a descriptor are passed over
BuildRecommendations_SliceFirst(ranked, max_possible, recs) ==
    BuildRecommendations_NoBreak(
        SubSeq(ranked, 1, IF Len(ranked) < 3 THEN Len(ranked) ELSE 3),
        max_possible, recs)

RECURSIVE BuildRecommendations(_, _, _)
\* the loop over sorted_scores: keys without a descriptor are passed over,
\* the loop breaks once three recommendations were appended
BuildRecommendations(ranked, max_possible, recs) ==
    IF ranked = <<>> THEN recs
    ELSE LET tradition_key == Head(ranked)[1]
             score == Head(ranked)[2]
         IN  IF tradition_key \in DOMAIN RELIGIONS
             THEN LET appended ==
                          Append(recs, TraditionInfo(tradition_key, score,
                                                     max_possible))
                  IN  IF Len(appended) = 3 THEN appended
                      ELSE BuildRecommendations(Tail(ranked), max_possible,
                                                appended)
             ELSE BuildRecommendations(Tail(ranked), max_possible, recs)

\* mutant of DescriptorAfterWrites: no .copy(), tradition_info is the
\* RELIGIONS entry itself
DescriptorAfterWrites_NoCopy(table, tradition_key, tradition_info) ==
    [table EXCEPT ![tradition_key] = tradition_info]

\* tradition_info = RELIGIONS[tradition_key].copy(): the assignments to
\* tradition_info["score"] and ["percentage"] go to the copy, the table
\* keeps its entry
DescriptorAfterWrites(table, tradition_key, tradition_info) == table

RECURSIVE ReligionsAfterBuild(_, _, _, _)
\* the dict RELIGIONS after the loop over sorted_scores (appended counts the
\* recommendations appended so far)
ReligionsAfterBuild(table, ranked, max_possible, appended) ==
    IF ranked = <<>> \/ appended = 3 THEN table
    ELSE LET tradition_key == Head(ranked)[1]
             score == Head(ranked)[2]
         IN  IF tradition_key \in DOMAIN RELIGIONS
             THEN ReligionsAfterBuild(
                      DescriptorAfterWrites(table, tradition_key,
                          TraditionInfo(tradition_key, score, max_possible)),
                      Tail(ranked), max_possible, appended + 1)
             ELSE ReligionsAfterBuild(table, Tail(ranked), max_possible, appended)

\* mutant of calculate_results: scores starts with an entry 0 for three
\* traditions of RELIGIONS and is not empty
calculate_results_SeededScores(bank, ans) ==
    IF \E i \in DOMAIN ans : RaisesKeyError(bank, ans[i])
    THEN [outcome |-> "KeyError", scores |-> <<>>, coverage |-> EmptyDict,
          max_possible_score |-> 0, sorted_scores |-> <<>>,
          recommendations |-> <<>>]
    ELSE LET seed == << <<"christianity", 0>>, <<"islam", 0>>, <<"buddhism", 0>> >>
             loop1 == ScoreAnswers(bank, ans, seed, EmptyDict)
             max_possible == MaxPossibleScore(bank, ans)
             ranked == SortedDescending(loop1.scores, loop1.coverage, <<>>)
         IN  [outcome |-> "returned",
              scores |-> loop1.scores,
              coverage |-> loop1.coverage,
              max_possible_score |-> max_possible,
              sorted_scores |-> ranked,
              recommendations |-> BuildRecommendations(ranked, max_possible, <<>>)]

\* calculate_results(answers) against the bank: its locals when it returns,
\* or the KeyError that leaves it
calculate_results(bank, ans) ==
    IF \E i \in DOMAIN ans : RaisesKeyError(bank, ans[i])
    THEN [outcome |-> "KeyError", scores |-> <<>>, coverage |-> EmptyDict,
          max_possible_score |-> 0, sorted_scores |-> <<>>,
          recommendations |-> <<>>]
    ELSE LET loop1 == ScoreAnswers(bank, ans, <<>>, EmptyDict)
             max_possible == MaxPossibleScore(bank, ans)
             ranked == SortedDescending(loop1.scores, loop1.coverage, <<>>)
         IN  [outcome |-> "returned",
              scores |-> loop1.scores,
              coverage |-> loop1.coverage,
              max_possible_score |-> max_possible,
              sorted_scores |-> ranked,
              recommendations |-> BuildRecommendations(ranked, max_possible, <<>>)]

(***************************************************************************)
(* Inputs                                                                  *)
(***************************************************************************)
BankIds(bank) == { bank[i].id : i \in DOMAIN bank }

\* Answers a client can send for a bank: each of its questions with a known
\* ("A", "B") or unknown ("Z") label, a question id no bank has (0), and
\* answers with a field missing.
AnswerPool(bank) ==
    [question_id : BankIds(bank), answer : {"A", "B", "Z"}]
        \cup { [question_id |-> 0, answer |-> "A"] }
        \cup { [question_id |-> bank[1].id], [answer |-> "A"] }

AnswerLists(bank) ==
    UNION { [1..n -> AnswerPool(bank)] : n \in 0..MaxAnswers }

(***************************************************************************)
(* Initial state: the process has started (tables loaded,                  *)
(* initialize_default_user has run on an empty users file), nobody is      *)
(* logged in, and a caller is about to hand the list answers to            *)
(* calculate_results.                                                      *)
(***************************************************************************)
DefaultUsers == ("test" :> [answers |-> <<>>, results |-> <<>>])

InitEngine ==
    /\ outcome = "none"
    /\ scores = <<>>
    /\ coverage = EmptyDict
    /\ max_possible_score = 0
    /\ sorted_scores = <<>>
    /\ recommendations = <<>>

InitWeb ==
    /\ session = [user_id |-> NoValue, username |-> NoValue]
    /\ users = DefaultUsers
    /\ firestore = EmptyDict
    /\ response = [handler |-> "none", success |-> FALSE, message |-> ""]

\* the two frames of SpecInterleaved
Slots == {1, 2}

\* a frame in which no invocation runs
IdleCall ==
    [answers |-> <<>>, pc |-> "idle", i |-> 1, scores |-> <<>>,
     coverage |-> EmptyDict, max_possible_score |-> 0, sorted_scores |-> <<>>,
     recommendations |-> <<>>]

\* the two workers of SpecUsersFile
Workers == {1, 2}

\* a worker that serves no request
NoRequest ==
    [handler |-> "none", username |-> NoValue, posted |-> <<>>, pc |-> "idle",
     loaded |-> EmptyDict, success |-> FALSE, message |-> ""]

InitTables ==
    /\ religions = RELIGIONS
    /\ calls = [p \in Slots |-> IdleCall]
    /\ requests = [t \in Workers |-> NoRequest]

Init ==
    /\ QUESTIONS \in Banks
    /\ answers \in AnswerLists(QUESTIONS)
    /\ InitEngine
    /\ InitWeb
    /\ InitTables

\* the call calculate_results(answers) runs to its return or its exception
CalculateResults ==
    /\ outcome = "none"
    /\ LET r == calculate_results(QUESTIONS, answers)
       IN  /\ outcome' = r.outcome
           /\ scores' = r.scores
           /\ coverage' = r.coverage
           /\ max_possible_score' = r.max_possible_score
           /\ sorted_scores' = r.sorted_scores
           /\ recommendations' = r.recommendations
           /\ religions' = IF r.outcome = "returned"
                            THEN ReligionsAfterBuild(religions, r.sorted_scores,
                                                     r.max_possible_score, 0)
                            ELSE religions
    /\ UNCHANGED <<QUESTIONS, answers, webVars, calls>>

Next == CalculateResults

Spec == Init /\ [][Next]_vars

(***************************************************************************)
(* One call of calculate_results against the shipped bank.                 *)
(***************************************************************************)
\* longest answer list handed to calculate_results with the shipped bank
MaxShippedAnswers == 2

\* every option of every shipped question, a label no question has for each
\* question, and a question id the bank does not have
ShippedAnswerPool ==
    UNION { { [question_id |-> QUESTIONS_shipped[n].id, answer |-> label] :
                label \in OptionLabels(QUESTIONS_shipped[n]) \cup {"Z"} } :
            n \in DOMAIN QUESTIONS_shipped }
        \cup { [question_id |-> 0, answer |-> "Z"] }

ShippedAnswerLists ==
    UNION { [1..n -> ShippedAnswerPool] : n \in 0..MaxShippedAnswers }

InitShipped ==
    /\ QUESTIONS = QUESTIONS_shipped
    /\ answers \in ShippedAnswerLists
    /\ InitEngine
    /\ InitWeb
    /\ InitTables

SpecShipped == InitShipped /\ [][Next]_vars

(***************************************************************************)
(* The request handlers (src/app.py).  One browser session; the legacy     *)
(* users file holds the default user, Firestore is configured (db is not   *)
(* None).  Passwords and ID tokens are reduced to whether they verify.     *)
(***************************************************************************)
\* the bank the handlers are run with: the first two pool questions
WebBank == SubSeq(QuestionPool, 1, Len(QuestionPool) - 1)

\* "ghost" has no entry in the users file
UsernamePool == {"test", "ghost"}

UidPool == {"uid1"}

\* the answer dicts a client posts: answers for the bank's questions, one for
\* a question id the bank does not have, and one without a question_id
PostedAnswerPool(bank) ==
    { a \in AnswerPool(bank) : "answer" \in DOMAIN a /\ a.answer = "A" }

PostedAnswerLists(bank) ==
    UNION { [1..n -> PostedAnswerPool(bank)] : n \in 0..MaxAnswers }

\* jsonify({"success": .., "message": ..}); a successful submit_assessment
\* also carries the results it stored
Json(handler, success, message) ==
    [handler |-> handler, success |-> success, message |-> message]

NewDocument == [answers |-> <<>>, results |-> <<>>]

InitHandlers ==
    /\ QUESTIONS = WebBank
    /\ answers = <<>>
    /\ InitEngine
    /\ InitWeb
    /\ InitTables

\* POST /login, legacy flow: username and password
LoginLegacy ==
    \E username \in UsernamePool, password_ok \in BOOLEAN :
        /\ IF username \in DOMAIN users /\ password_ok
           THEN /\ session' = [session EXCEPT !.username = username]
                /\ response' = Json("login", TRUE, "")
           ELSE /\ session' = session
                /\ response' = Json("login", FALSE, "Invalid credentials")
        /\ UNCHANGED <<QUESTIONS, engineVars, users, firestore, religions, calls, requests>>

\* POST /login, Firebase flow: an ID token
LoginFirebase ==
    \E uid \in UidPool, token_ok \in BOOLEAN :
        /\ IF token_ok
           THEN /\ firestore' = IF uid \in DOMAIN firestore THEN firestore
                                ELSE firestore @@ (uid :> NewDocument)
                /\ session' = [session EXCEPT !.user_id = uid]
                /\ response' = Json("login", TRUE, "")
           ELSE /\ firestore' = firestore
                /\ session' = session
                /\ response' = Json("login", FALSE, "Invalid authentication token")
        /\ UNCHANGED <<QUESTIONS, engineVars, users, religions, calls, requests>>

\* mutant of logout: session.pop('username', None) is left out
logout_KeepsUsername ==
    /\ session' = [session EXCEPT !.user_id = NoValue]
    /\ response' = Json("logout", TRUE, "redirect")
    /\ UNCHANGED <<QUESTIONS, engineVars, users, firestore, religions, calls, requests>>

\* GET /logout
logout ==
    /\ session' = [user_id |-> NoValue, username |-> NoValue]
    /\ response' = Json("logout", TRUE, "redirect")
    /\ UNCHANGED <<QUESTIONS, engineVars, users, firestore, religions, calls, requests>>

\* mutant of WrongLength: only a list that is too short is refused
WrongLength_TooShort(posted) == Len(posted) < Len(QUESTIONS)

\* the length test of submit_assessment
WrongLength(posted) == Len(posted) # Len(QUESTIONS)

\* mutant of SubmittedRecord: the new results are appended to the stored ones
SubmittedRecord_ExtendResults(old, posted, results) ==
    [old EXCEPT !.answers = posted, !.results = @ \o results]

\* the user's record after 'answers' and 'results' were assigned
SubmittedRecord(old, posted, results) ==
    [old EXCEPT !.answers = posted, !.results = results]

\* POST /submit_assessment with data["answers"] = posted
SubmitAssessment(posted) ==
        LET user_id == session.user_id
            username == session.username
            r == calculate_results(QUESTIONS, posted)
        IN  /\ IF user_id = NoValue /\ username = NoValue
               THEN /\ response' = Json("submit_assessment", FALSE, "Not logged in")
                    /\ UNCHANGED <<users, firestore>>
               ELSE IF WrongLength(posted)
               THEN /\ response' = Json("submit_assessment", FALSE,
                                        "Please answer all questions!")
                    /\ UNCHANGED <<users, firestore>>
               ELSE IF r.outcome # "returned"
                       \/ (user_id # NoValue /\ user_id \notin DOMAIN firestore)
               THEN \* the exception leaves the handler: HTTP 500
                    /\ response' = Json("submit_assessment", FALSE,
                                        "Internal Server Error")
                    /\ UNCHANGED <<users, firestore>>
               ELSE IF user_id # NoValue
               THEN /\ firestore' = [firestore EXCEPT ![user_id] =
                            SubmittedRecord(@, posted, r.recommendations)]
                    /\ response' = Json("submit_assessment", TRUE, "")
                    /\ UNCHANGED users
               ELSE IF username \in DOMAIN users
               THEN /\ users' = [users EXCEPT ![username] =
                            SubmittedRecord(@, posted, r.recommendations)]
                    /\ response' = Json("submit_assessment", TRUE, "")
                    /\ UNCHANGED firestore
               ELSE /\ response' = Json("submit_assessment", FALSE, "User not found")
                    /\ UNCHANGED <<users, firestore>>
            /\ religions' =
                   IF (user_id # NoValue \/ username # NoValue)
                          /\ ~WrongLength(posted) /\ r.outcome = "returned"
                   THEN ReligionsAfterBuild(religions, r.sorted_scores,
                                            r.max_possible_score, 0)
                   ELSE religions
            /\ UNCHANGED <<QUESTIONS, engineVars, session, calls, requests>>

submit_assessment ==
    \E posted \in PostedAnswerLists(QUESTIONS) : SubmitAssessment(posted)

\* mutant of ResetRecord: only the results are cleared
ResetRecord_ResultsOnly(old) == [old EXCEPT !.results = <<>>]

\* the user's record after 'answers' and 'results' were set to []
ResetRecord(old) == [old EXCEPT !.answers = <<>>, !.results = <<>>]

\* POST /reset_assessment
reset_assessment ==
    LET user_id == session.user_id
        username == session.username
    IN  /\ IF user_id = NoValue /\ username = NoValue
           THEN /\ response' = Json("reset_assessment", FALSE, "Not logged in")
                /\ UNCHANGED <<users, firestore>>
           ELSE IF user_id # NoValue /\ user_id \notin DOMAIN firestore
           THEN /\ response' = Json("reset_assessment", FALSE,
                                    "Internal Server Error")
                /\ UNCHANGED <<users, firestore>>
           ELSE IF user_id # NoValue
           THEN /\ firestore' = [firestore EXCEPT ![user_id] = ResetRecord(@)]
                /\ response' = Json("reset_assessment", TRUE, "")
                /\ UNCHANGED users
           ELSE IF username \in DOMAIN users
           THEN /\ users' = [users EXCEPT ![username] = ResetRecord(@)]
                /\ response' = Json("reset_assessment", TRUE, "")
                /\ UNCHANGED firestore
           ELSE /\ response' = Json("reset_assessment", FALSE, "User not found")
                /\ UNCHANGED <<users, firestore>>
        /\ UNCHANGED <<QUESTIONS, engineVars, session, religions, calls, requests>>

NextHandlers ==
    \/ LoginLegacy
    \/ LoginFirebase
    \/ logout
    \/ submit_assessment
    \/ reset_assessment

SpecHandlers == InitHandlers /\ [][NextHandlers]_vars

(***************************************************************************)
(* Two invocations of calculate_results at the same time (two requests     *)
(* served by two threads of the process).  A frame holds the argument and  *)
(* the locals of one invocation; a step is one iteration of the first or   *)
(* of the second loop over answers, the sort, or the loop that builds the  *)
(* list.  A frame whose invocation has ended takes the next invocation.    *)
(***************************************************************************)
\* longest answer list of an interleaved invocation
MaxInterleavedAnswers == 2

\* the answers handed to the interleaved invocations: answers for the bank's
\* questions and one without a question_id
InterleavedAnswerPool(bank) ==
    { a \in PostedAnswerPool(bank) :
        "question_id" \in DOMAIN a => a.question_id \in BankIds(bank) }

InterleavedAnswerLists(bank) ==
    UNION { [1..n -> InterleavedAnswerPool(bank)] : n \in 0..MaxInterleavedAnswers }

InitInterleaved ==
    /\ QUESTIONS = WebBank
    /\ answers = <<>>
    /\ InitEngine
    /\ InitWeb
    /\ InitTables

\* mutant of ScoresOwner: scores is one module-level dict, the name is bound
\* to the same object in every invocation
ScoresOwner_ModuleLevel(p) == 1

\* scores = {}: the frame whose dict the name scores is bound to in the
\* invocation of frame p, its own
ScoresOwner(p) == p

\* calculate_results(ans) is called: scores = {}, coverage = {}
Invoke(p) ==
    /\ calls[p].pc \in {"idle", "done", "KeyError"}
    /\ \E ans \in InterleavedAnswerLists(QUESTIONS) :
           LET entered == [calls EXCEPT ![p] = [IdleCall EXCEPT !.answers = ans,
                                                               !.pc = "loop1"]]
           IN  calls' = [entered EXCEPT ![ScoresOwner(p)].scores = <<>>]
    /\ UNCHANGED <<QUESTIONS, engineVars, webVars, religions>>

\* one iteration of "for answer in answers" (weighted scores), or its end
ScoreStep(p) ==
    /\ calls[p].pc = "loop1"
    /\ LET c == calls[p]
           o == ScoresOwner(p)
       IN  IF c.i > Len(c.answers)
           THEN calls' = [calls EXCEPT ![p].pc = "loop2", ![p].i = 1]
           ELSE IF RaisesKeyError(QUESTIONS, c.answers[c.i])
           THEN calls' = [calls EXCEPT ![p].pc = "KeyError"]
           ELSE LET step == ScoreAnswers(QUESTIONS, << c.answers[c.i] >>,
                                         calls[o].scores, c.coverage)
                IN  calls' = [calls EXCEPT ![o].scores = step.scores,
                                           ![p].coverage = step.coverage,
                                           ![p].i = c.i + 1]
    /\ UNCHANGED <<QUESTIONS, engineVars, webVars, religions>>

\* one iteration of "for answer in answers" (max_possible_score), or its end
MaxStep(p) ==
    /\ calls[p].pc = "loop2"
    /\ LET c == calls[p]
       IN  IF c.i > Len(c.answers)
           THEN calls' = [calls EXCEPT ![p].pc = "sort"]
           ELSE calls' = [calls EXCEPT
                    ![p].max_possible_score =
                        @ + MaxPossibleOfAnswer(QUESTIONS, c.answers[c.i]),
                    ![p].i = c.i + 1]
    /\ UNCHANGED <<QUESTIONS, engineVars, webVars, religions>>

\* sorted_scores = sorted(scores.items(), ...)
SortStep(p) ==
    /\ calls[p].pc = "sort"
    /\ calls' = [calls EXCEPT
            ![p].sorted_scores =
                SortedDescending(calls[ScoresOwner(p)].scores,
                                 calls[p].coverage, <<>>),
            ![p].pc = "build"]
    /\ UNCHANGED <<QUESTIONS, engineVars, webVars, religions>>

\* the loop over sorted_scores and the return
BuildStep(p) ==
    /\ calls[p].pc = "build"
    /\ calls' = [calls EXCEPT
            ![p].recommendations =
                BuildRecommendations(calls[p].sorted_scores,
                                     calls[p].max_possible_score, <<>>),
            ![p].pc = "done"]
    /\ religions' = ReligionsAfterBuild(religions, calls[p].sorted_scores,
                                        calls[p].max_possible_score, 0)
    /\ UNCHANGED <<QUESTIONS, engineVars, webVars>>

NextInterleaved ==
    \E p \in Slots :
        \/ Invoke(p)
        \/ ScoreStep(p)
        \/ MaxStep(p)
        \/ SortStep(p)
        \/ BuildStep(p)

SpecInterleaved == InitInterleaved /\ [][NextInterleaved]_vars

(***************************************************************************)
(* The legacy users file under two workers (two requests served at the     *)
(* same time).  A request of a legacy handler reads the whole file with    *)
(* load_users, changes its own copy and writes the whole copy back with    *)
(* save_users; each of the two is one step (the file is read and written   *)
(* in one piece).  The sessions are logged in with the username the        *)
(* request names; the posted lists have len(QUESTIONS) answers, so the     *)
(* request reaches load_users.  The process starts with an empty file.     *)
(***************************************************************************)
\* the bank the workers are run with: the first pool question
FileBank == SubSeq(QuestionPool, 1, 1)

\* the lists posted to the workers: one answer for each question of the bank
FilePostedLists(bank) ==
    { posted \in [1..Len(bank) -> [question_id : BankIds(bank), answer : {"A", "B"}]] :
        \A n \in DOMAIN bank :
            /\ posted[n].question_id = bank[n].id
            /\ posted[n].answer \in OptionLabels(bank[n]) }

InitUsersFile ==
    /\ QUESTIONS = FileBank
    /\ answers = <<>>
    /\ InitEngine
    /\ session = [user_id |-> NoValue, username |-> NoValue]
    /\ users = EmptyDict
    /\ firestore = EmptyDict
    /\ response = [handler |-> "none", success |-> FALSE, message |-> ""]
    /\ religions = RELIGIONS
    /\ calls = [p \in Slots |-> IdleCall]
    /\ requests = [t \in Workers |-> [NoRequest EXCEPT !.pc = "boot"]]

\* initialize_default_user(), called once when the module is loaded
initialize_default_user ==
    /\ \A t \in Workers : requests[t].pc = "boot"
    /\ users' = IF DOMAIN users = {} THEN DefaultUsers ELSE users
    /\ requests' = [t \in Workers |-> NoRequest]
    /\ UNCHANGED <<QUESTIONS, engineVars, session, firestore, response,
                   religions, calls>>

\* a worker takes a request: legacy signup, submit_assessment or
\* reset_assessment, up to its call of load_users
BeginRequest(t) ==
    /\ requests[t].pc \in {"idle", "done"}
    /\ \E handler \in {"signup", "submit_assessment", "reset_assessment"},
          username \in UsernamePool :
         \E posted \in IF handler = "submit_assessment"
                        THEN FilePostedLists(QUESTIONS) ELSE { <<>> } :
           /\ requests' = [requests EXCEPT ![t] =
                   [NoRequest EXCEPT !.handler = handler, !.username = username,
                                     !.posted = posted, !.pc = "load"]]
           /\ religions' =
                  IF handler = "submit_assessment"
                  THEN LET r == calculate_results(QUESTIONS, posted)
                       IN  ReligionsAfterBuild(religions, r.sorted_scores,
                                               r.max_possible_score, 0)
                  ELSE religions
    /\ UNCHANGED <<QUESTIONS, engineVars, session, users, firestore, response,
                   calls>>

\* users = load_users(): the dict the request of worker t works on, its own
\* copy of what the file held when it was read
LoadedUsers(t) == requests[t].loaded

\* users = load_users() and the test that follows it
LoadUsers(t) ==
    /\ requests[t].pc = "load"
    /\ LET req == requests[t]
       IN  IF req.handler = "signup" /\ req.username \in DOMAIN users
           THEN requests' = [requests EXCEPT ![t].pc = "done",
                                 ![t].message = "Username already exists"]
           ELSE IF req.handler # "signup" /\ req.username \notin DOMAIN users
           THEN requests' = [requests EXCEPT ![t].pc = "done",
                                 ![t].message = "User not found"]
           ELSE requests' = [requests EXCEPT ![t].pc = "save",
                                 ![t].loaded = users]
    /\ UNCHANGED <<QUESTIONS, engineVars, session, users, firestore, response,
                   religions, calls>>

\* the change to the loaded dict, save_users(users) and the success answer
SaveUsers(t) ==
    /\ requests[t].pc = "save"
    /\ LET req == requests[t]
           mine == LoadedUsers(t)
       IN  users' =
               IF req.handler = "signup"
               THEN (req.username :> NewDocument) @@ mine
               ELSE IF req.handler = "submit_assessment"
               THEN [mine EXCEPT ![req.username] =
                        SubmittedRecord(@, req.posted,
                            calculate_results(QUESTIONS, req.posted).recommendations)]
               ELSE [mine EXCEPT ![req.username] = ResetRecord(@)]
    /\ requests' = [requests EXCEPT ![t].pc = "done", ![t].success = TRUE,
                                    ![t].loaded = EmptyDict]
    /\ UNCHANGED <<QUESTIONS, engineVars, session, firestore, response,
                   religions, calls>>

NextUsersFile ==
    \/ initialize_default_user
    \/ \E t \in Workers :
           \/ BeginRequest(t)
           \/ LoadUsers(t)
           \/ SaveUsers(t)

SpecUsersFile == InitUsersFile /\ [][NextUsersFile]_vars

(***************************************************************************)
(* Vocabulary of the properties, written from the statements and not with  *)
(* the operators of calculate_results above                                *)
(***************************************************************************)
RECURSIVE SumFun(_)
\* the sum of the values of a function with a finite domain
SumFun(f) ==
    IF DOMAIN f = {} THEN 0
    ELSE LET x == CHOOSE x \in DOMAIN f : TRUE
         IN  f[x] + SumFun([y \in DOMAIN f \ {x} |-> f[y]])

Returned == outcome = "returned"

\* positions of the answers whose question id is in QUESTIONS
KnownIdAnswers ==
    { i \in DOMAIN answers :
        /\ "question_id" \in DOMAIN answers[i]
        /\ \E n \in DOMAIN QUESTIONS : QUESTIONS[n].id = answers[i].question_id }

QuestionOfAnswer(i) ==
    QUESTIONS[CHOOSE n \in DOMAIN QUESTIONS :
                  QUESTIONS[n].id = answers[i].question_id]

\* positions of the answers whose option label is one of the question's
MatchedAnswers ==
    { i \in KnownIdAnswers :
        /\ "answer" \in DOMAIN answers[i]
        /\ \E o \in DOMAIN QuestionOfAnswer(i).options :
               QuestionOfAnswer(i).options[o].label = answers[i].answer }

ChosenOption(i) ==
    LET opts == QuestionOfAnswer(i).options
    IN  opts[CHOOSE o \in DOMAIN opts : opts[o].label = answers[i].answer].points_map

\* QUESTION_WEIGHTS[id], or 1 when the id has no entry
WeightOfAnswer(i) ==
    IF answers[i].question_id \in DOMAIN QUESTION_WEIGHTS
    THEN QUESTION_WEIGHTS[answers[i].question_id] ELSE 1

\* base points of the chosen option's raw keys that fold to key
FoldedBasePoints(i, key) ==
    SumFun([j \in { j \in DOMAIN ChosenOption(i) :
                      canon(ChosenOption(i)[j][1]) = key } |->
               ChosenOption(i)[j][2]])

ExpectedScore(key) ==
    SumFun([i \in MatchedAnswers |-> FoldedBasePoints(i, key) * WeightOfAnswer(i)])

\* the matched answers that contributed to key
ContributingAnswers(key) ==
    { i \in MatchedAnswers :
        \E j \in DOMAIN ChosenOption(i) : canon(ChosenOption(i)[j][1]) = key }

\* every canonical key a bank can score
CanonicalKeys ==
    UNION { UNION { { canon(QuestionPool[n].options[o].points_map[j][1]) :
                        j \in DOMAIN QuestionPool[n].options[o].points_map } :
                    o \in DOMAIN QuestionPool[n].options } :
            n \in DOMAIN QuestionPool }

\* the largest base-point value found in any option of the question
LargestBasePoints(question) ==
    LET values == UNION { { question.options[o].points_map[j][2] :
                              j \in DOMAIN question.options[o].points_map } :
                          o \in DOMAIN question.options }
    IN  IF values = {} THEN 0
        ELSE CHOOSE m \in values : \A v \in values : v <= m

\* the canonical key a recommendation was built from (names are unique)
KeyOf(rec) == CHOOSE k \in DOMAIN RELIGIONS : RELIGIONS[k].name = rec.name

\* exactly one answer for each question id of QUESTIONS, and no other answer
OnePerQuestionId(ans) ==
    /\ Len(ans) = Len(QUESTIONS)
    /\ \A i \in DOMAIN ans : "question_id" \in DOMAIN ans[i]
    /\ \A n \in DOMAIN QUESTIONS :
           \E i \in DOMAIN ans : ans[i].question_id = QUESTIONS[n].id

\* a valid submission: one answer per question id, each with a known label
ValidSubmission ==
    /\ OnePerQuestionId(answers)
    /\ MatchedAnswers = DOMAIN answers

(***************************************************************************)
(* C1: the score accumulated for a canonical key is the sum, over the      *)
(* answers with a known question id and a known option label, of base      *)
(* points x question weight (default 1) of the chosen option's raw keys    *)
(* that canon() maps to the key; keys nothing contributed to have no entry *)
(***************************************************************************)
C1_ScoreIsWeightedSum ==
    Returned =>
        /\ \A i, j \in DOMAIN scores : scores[i][1] = scores[j][1] => i = j
        /\ DictKeys(scores) \subseteq CanonicalKeys
        /\ \A key \in CanonicalKeys :
               DictGet(scores, key, 0) = ExpectedScore(key)

\* weight 5 x base 3 = 15 for islam, and zen folded into buddhism by a
\* question without a weight entry: 2 x 5 + 5 x 1 = 15
C1_Witness ==
    /\ Returned
    /\ answers = << [question_id |-> 1, answer |-> "A"],
                    [question_id |-> 10, answer |-> "A"] >>
    /\ DictGet(scores, "islam", 0) = 15
    /\ DictGet(scores, "buddhism", 0) = 15
    /\ "zen" \notin DictKeys(scores)

(***************************************************************************)
(* C2: for a valid submission every emitted percentage lies in 0..100      *)
(***************************************************************************)
C2_PercentageWithinBounds ==
    (Returned /\ ValidSubmission) =>
        \A i \in DOMAIN recommendations :
            /\ recommendations[i].percentage >= 0
            /\ recommendations[i].percentage <= 100

(***************************************************************************)
(* C3: an answer with a known question id and an unknown option label      *)
(* contributes zero to every score and zero to the max-possible score      *)
(***************************************************************************)
C3_UnknownLabelAddsNothing ==
    Returned =>
        /\ \A key \in CanonicalKeys :
               DictGet(scores, key, 0) = ExpectedScore(key)
        /\ max_possible_score =
               SumFun([i \in MatchedAnswers |->
                          WeightOfAnswer(i) * LargestBasePoints(QuestionOfAnswer(i))])

(***************************************************************************)
(* C4: submit_assessment scores and stores only a submission that holds    *)
(* exactly one answer for each question id of QUESTIONS; every other       *)
(* submission is rejected, so no stored answer list is anything else       *)
(***************************************************************************)
C4_OnlyCompleteSubmissionsStored ==
    /\ \A u \in DOMAIN users :
           users[u].answers # <<>> => OnePerQuestionId(users[u].answers)
    /\ \A u \in DOMAIN firestore :
           firestore[u].answers # <<>> => OnePerQuestionId(firestore[u].answers)

\* the answer lists that hold the same answers as ans in another order
Reorderings(ans) ==
    { [i \in DOMAIN ans |-> ans[p[i]]] :
        p \in { q \in [DOMAIN ans -> DOMAIN ans] :
                  \A i, j \in DOMAIN ans : q[i] = q[j] => i = j } }

(***************************************************************************)
(* C5 as stated: for submissions that are permutations of the same answers *)
(* (one per question id) the returned lists hold the same traditions in    *)
(* the same positions with the same scores and percentages                 *)
(***************************************************************************)
C5_SameListForEveryOrder ==
    (Returned /\ OnePerQuestionId(answers)) =>
        \A other \in Reorderings(answers) :
            calculate_results(QUESTIONS, other).recommendations = recommendations

(***************************************************************************)
(* C5 as amended: for submissions that are permutations of the same        *)
(* answers (one per question id) the returned lists have the same length   *)
(* and the same score and percentage in every position, and the traditions *)
(* in the same position are the same or tied on both score and coverage    *)
(***************************************************************************)
C5_SameListUpToTies ==
    (Returned /\ OnePerQuestionId(answers)) =>
        \A other \in Reorderings(answers) :
            LET r == calculate_results(QUESTIONS, other)
            IN  /\ r.outcome = "returned"
                /\ Len(r.recommendations) = Len(recommendations)
                /\ \A i \in DOMAIN recommendations :
                       LET a == recommendations[i]
                           b == r.recommendations[i]
                       IN  /\ b.score = a.score
                           /\ b.percentage = a.percentage
                           /\ \/ b.name = a.name
                              \/ Cardinality(ContributingAnswers(KeyOf(b)))
                                     = Cardinality(ContributingAnswers(KeyOf(a)))

\* a submission whose returned list changes with the order of its answers
C5_Witness ==
    /\ Returned
    /\ OnePerQuestionId(answers)
    /\ Len(answers) >= 2
    /\ Len(recommendations) >= 2
    /\ \E other \in Reorderings(answers) :
           calculate_results(QUESTIONS, other).recommendations # recommendations

(***************************************************************************)
(* C6: the max-possible score is the sum, over the answers whose question  *)
(* id is in QUESTIONS, of question weight x the largest base-point value   *)
(* of any option of the question; other answers add zero                   *)
(***************************************************************************)
C6_MaxPossibleIsSumOfLargest ==
    Returned =>
        max_possible_score =
            SumFun([i \in KnownIdAnswers |->
                       WeightOfAnswer(i) * LargestBasePoints(QuestionOfAnswer(i))])

\* option "A" of question 1 was chosen (largest base 3) while the question's
\* largest is 5, and an answer with an unknown question id is in the list
C6_Witness ==
    /\ Returned
    /\ answers = << [question_id |-> 1, answer |-> "A"],
                    [question_id |-> 0, answer |-> "A"] >>
    /\ max_possible_score = 25

(***************************************************************************)
(* C7: every recommendation's percentage is score / max-possible x 100     *)
(* rounded to an integer (at most 1/2 away) when max-possible > 0, and 0   *)
(* when it is 0, in which case nothing is divided                          *)
(***************************************************************************)
C7_PercentageIsRoundedRatio ==
    Returned =>
        \A i \in DOMAIN recommendations :
            LET rec == recommendations[i]
                diff == rec.percentage * max_possible_score - 100 * rec.score
            IN  IF max_possible_score > 0
                THEN /\ 2 * diff <= max_possible_score
                     /\ -2 * diff <= max_possible_score
                ELSE rec.percentage = 0

\* a percentage that had to be rounded, one up and one down
C7_Witness ==
    /\ Returned
    /\ max_possible_score > 0
    /\ \E i, j \in DOMAIN recommendations :
           /\ recommendations[i].percentage * max_possible_score
                  > 100 * recommendations[i].score
           /\ recommendations[j].percentage * max_possible_score
                  < 100 * recommendations[j].score

C9_AtMostThree == Len(recommendations) <= 3

\* more than three traditions with a descriptor scored
C9_Witness ==
    /\ Returned
    /\ Cardinality(DictKeys(scores) \cap DOMAIN RELIGIONS) > 3
    /\ \A i \in DOMAIN scores : scores[i][2] > 0
    /\ Len(recommendations) = 3

(***************************************************************************)
(* C10: the output is the first 3 keys of the ranked list that have a      *)
(* RELIGIONS entry (all of them when fewer than 3): a key without one is   *)
(* never emitted and takes no slot                                         *)
(***************************************************************************)
C10_FirstThreeWithDescriptor ==
    Returned =>
        LET bearing == SelectSeq(sorted_scores,
                                 LAMBDA x : x[1] \in DOMAIN RELIGIONS)
        IN  /\ Len(recommendations) =
                   (IF Len(bearing) < 3 THEN Len(bearing) ELSE 3)
            /\ \A i \in DOMAIN recommendations :
                   /\ recommendations[i].name = RELIGIONS[bearing[i][1]].name
                   /\ recommendations[i].score = bearing[i][2]

\* a key without a descriptor ranks among the first three and three
\* recommendations are still returned
C10_Witness ==
    /\ Returned
    /\ Len(recommendations) = 3
    /\ \E i \in 1..3 : sorted_scores[i][1] \notin DOMAIN RELIGIONS
\* the matched answers whose chosen option holds two raw keys of the same
\* tradition: key itself and an alias of it, or two aliases of it
FoldingAnswers(key) ==
    { i \in MatchedAnswers :
        \E j1, j2 \in DOMAIN ChosenOption(i) :
            /\ j1 # j2
            /\ ChosenOption(i)[j1][1] # ChosenOption(i)[j2][1]
            /\ \A j \in {j1, j2} :
                   \/ ChosenOption(i)[j][1] = key
                   \/ /\ ChosenOption(i)[j][1] \in DOMAIN TRADITION_ALIASES
                      /\ TRADITION_ALIASES[ChosenOption(i)[j][1]] = key }

(***************************************************************************)
(* C11: when the chosen option of a matched answer holds a canonical key   *)
(* and an alias of it (or two aliases of one key), scores has exactly one  *)
(* entry for the canonical key and none for the alias, that entry is the   *)
(* sum of all weighted contributions, and the key's coverage is the number *)
(* of answers that contributed to it: the folding answer raised it by 1.   *)
(***************************************************************************)
C11_AliasesFoldIntoOneEntry ==
    Returned =>
        \A key \in CanonicalKeys :
            FoldingAnswers(key) # {} =>
                /\ Cardinality({ n \in DOMAIN scores : scores[n][1] = key }) = 1
                /\ \A n \in DOMAIN scores :
                       scores[n][1] \notin DOMAIN TRADITION_ALIASES
                /\ DictGet(scores, key, 0) = ExpectedScore(key)
                /\ CoverageGet(coverage, key) = Cardinality(ContributingAnswers(key))

\* question 2, option A ({wicca: 3, paganism: 2}, weight 3) answered alone:
\* one entry paganism = (3 + 2) * 3 with coverage 1
C11_Witness ==
    /\ Returned
    /\ answers = << [question_id |-> 2, answer |-> "A"] >>
    /\ FoldingAnswers("paganism") = {1}
    /\ scores = << <<"paganism", 15>> >>
    /\ CoverageGet(coverage, "paganism") = 1

\* the sub-list of ans at the positions in S, order kept
SubList(ans, S) ==
    [k \in 1..Cardinality(S) |->
        ans[CHOOSE i \in S : Cardinality({ j \in S : j <= i }) = k]]

QuestionIdsOf(ans) ==
    { ans[i].question_id : i \in { i \in DOMAIN ans : "question_id" \in DOMAIN ans[i] } }

\* the score calculate_results accumulates for key when it scores ans alone
ScoreAlone(ans, key) == DictGet(calculate_results(QUESTIONS, ans).scores, key, 0)

\* the ways to split answers into two lists A, B over disjoint question ids
DisjointSplits ==
    { S \in SUBSET DOMAIN answers :
        QuestionIdsOf(SubList(answers, S))
            \cap QuestionIdsOf(SubList(answers, DOMAIN answers \ S)) = {} }

(***************************************************************************)
(* C12: additivity.  For every split of the answer list into two lists A   *)
(* and B that cover disjoint question ids, the score accumulated for each  *)
(* canonical key when A and B are scored together is the sum of the scores *)
(* accumulated when A is scored alone and when B is scored alone.          *)
(***************************************************************************)
C12_ScoresAreAdditive ==
    Returned =>
        \A S \in DisjointSplits :
            \A key \in CanonicalKeys :
                DictGet(scores, key, 0) =
                    ScoreAlone(SubList(answers, S), key)
                        + ScoreAlone(SubList(answers, DOMAIN answers \ S), key)

\* both parts are non-empty and score the same key (question 1 option A gives
\* buddhism, question 10 option A gives zen, folded to buddhism)
C12_Witness ==
    /\ Returned
    /\ \E S \in DisjointSplits :
           /\ S # {} /\ S # DOMAIN answers
           /\ \E key \in CanonicalKeys :
                  /\ ScoreAlone(SubList(answers, S), key) > 0
                  /\ ScoreAlone(SubList(answers, DOMAIN answers \ S), key) > 0
                  /\ DictGet(scores, key, 0) > ScoreAlone(SubList(answers, S), key)

\* the call has run to its return or to its exception
CallEnded == outcome # "none"

\* no answer of the list names a known question id together with one of
\* that question's option labels
NoAnswerMatches ==
    \A i \in DOMAIN answers :
        ~ /\ DOMAIN answers[i] = {"question_id", "answer"}
          /\ \E n \in DOMAIN QUESTIONS :
                 /\ QUESTIONS[n].id = answers[i].question_id
                 /\ \E o \in DOMAIN QUESTIONS[n].options :
                        QUESTIONS[n].options[o].label = answers[i].answer

(***************************************************************************)
(* C14: when no answer of the list matches a known (question id, option    *)
(* label) pair, the empty list included, the call returns (it does not     *)
(* raise) and what it returns is the empty list.                           *)
(***************************************************************************)
C14_NoMatchReturnsEmptyList ==
    (CallEnded /\ NoAnswerMatches) => (Returned /\ recommendations = <<>>)

(***************************************************************************)
(* C15: calculate_results never raises: whatever the answer list holds     *)
(* (unknown question ids, unknown option labels, answers without the       *)
(* question_id or the answer field), the call ends by returning a list.    *)
(***************************************************************************)
C15_NeverRaises == CallEnded => Returned

\* the stored record of the user the session belongs to: the Firestore
\* document when the session holds a user_id, the users-file entry otherwise
SessionRecord(sess, file, docs) ==
    IF sess.user_id # NoValue THEN docs[sess.user_id] ELSE file[sess.username]

HasSessionRecord ==
    IF session.user_id # NoValue THEN session.user_id \in DOMAIN firestore
    ELSE session.username \in DOMAIN users

(***************************************************************************)
(* C16: a submit_assessment request whose list does not have               *)
(* len(QUESTIONS) answers is answered with success = false and a message,  *)
(* the answer being given before calculate_results could run (a list that  *)
(* would make it raise is refused like any other), and no stored answers   *)
(* or results of any user change.                                          *)
(***************************************************************************)
C16_WrongLengthIsRejected ==
    [][ response'.handler = "submit_assessment" =>
            \/ /\ response'.success = FALSE
               /\ response'.message \in {"Not logged in",
                                          "Please answer all questions!"}
               /\ users' = users
               /\ firestore' = firestore
            \/ \A posted \in PostedAnswerLists(QUESTIONS) :
                   Len(posted) # Len(QUESTIONS) => ~SubmitAssessment(posted) ]_vars

\* a logged-in user with stored results was refused for the length
C16_Witness ==
    /\ response = Json("submit_assessment", FALSE, "Please answer all questions!")
    /\ HasSessionRecord
    /\ SessionRecord(session, users, firestore).results # <<>>

C13_SameListSameResult ==
    \A p, q \in Slots :
        (calls[p].pc = "done" /\ calls[q].pc = "done"
            /\ calls[p].answers = calls[q].answers)
        => calls[p].recommendations = calls[q].recommendations

C13_Witness ==
    /\ calls[1].pc = "done" /\ calls[2].pc = "done"
    /\ calls[1].answers = calls[2].answers
    /\ Len(calls[1].answers) = 2
    /\ Len(calls[1].recommendations) = 3
    /\ calls[1].recommendations = calls[2].recommendations

(***************************************************************************)
(* C19: calculate_results has no side effect.  A call leaves the question  *)
(* bank and the dict RELIGIONS as they were (score and percentage are      *)
(* written to the copy of the descriptor), and it leaves the answer list   *)
(* it was handed, the users file and the Firestore documents as they were. *)
(***************************************************************************)
C19_NoSideEffects ==
    [][ CalculateResults =>
            /\ QUESTIONS' = QUESTIONS
            /\ religions' = religions
            /\ religions' = RELIGIONS
            /\ answers' = answers
            /\ users' = users
            /\ firestore' = firestore ]_vars

\* a call has returned three recommendations and the table is as loaded
C19_Witness ==
    /\ Returned
    /\ Len(recommendations) = 3
    /\ \A n \in DOMAIN recommendations : recommendations[n].score > 0
    /\ \A k \in DOMAIN religions : DOMAIN religions[k] = {"name"}

\* what the invocation in frame p returns when it is the only one running
ReturnsAlone(p) == calculate_results(QUESTIONS, calls[p].answers)

(***************************************************************************)
(* C20: under every interleaving of the steps of two invocations, an       *)
(* invocation that has ended has ended as it ends when run alone: it       *)
(* returned the list it returns alone, or raised where it raises alone.    *)
(***************************************************************************)
C20_InterleavedAsAlone ==
    \A p \in Slots :
        /\ calls[p].pc = "done" =>
               /\ ReturnsAlone(p).outcome = "returned"
               /\ calls[p].recommendations = ReturnsAlone(p).recommendations
        /\ calls[p].pc = "KeyError" => ReturnsAlone(p).outcome = "KeyError"

\* two invocations for different submissions that score the same tradition
\* have both returned
C20_Witness ==
    /\ calls[1].pc = "done" /\ calls[2].pc = "done"
    /\ calls[1].answers # calls[2].answers
    /\ calls[1].recommendations # <<>>
    /\ calls[2].recommendations # <<>>
    /\ \E n \in DOMAIN calls[1].recommendations,
          m \in DOMAIN calls[2].recommendations :
           calls[1].recommendations[n].name = calls[2].recommendations[m].name

\* the first contribution to key: the earliest matched answer whose chosen
\* option holds a raw key of it, and the first such position in that option
FirstAnswerFor(key) ==
    CHOOSE i \in ContributingAnswers(key) :
        \A i2 \in ContributingAnswers(key) : i <= i2

FirstPositionFor(key) ==
    LET opt == ChosenOption(FirstAnswerFor(key))
    IN  CHOOSE j \in DOMAIN opt :
            /\ canon(opt[j][1]) = key
            /\ \A j2 \in DOMAIN opt : canon(opt[j2][1]) = key => j <= j2

\* key1 received its first contribution before key2 did
ContributedBefore(key1, key2) ==
    \/ FirstAnswerFor(key1) < FirstAnswerFor(key2)
    \/ /\ FirstAnswerFor(key1) = FirstAnswerFor(key2)
       /\ FirstPositionFor(key1) < FirstPositionFor(key2)

\* positions a < b of the ranked list hold keys tied on score and coverage
TiedPositions ==
    { ab \in (DOMAIN sorted_scores) \X (DOMAIN sorted_scores) :
        /\ ab[1] < ab[2]
        /\ sorted_scores[ab[1]][2] = sorted_scores[ab[2]][2]
        /\ CoverageGet(coverage, sorted_scores[ab[1]][1])
               = CoverageGet(coverage, sorted_scores[ab[2]][1]) }

(***************************************************************************)
(* C22: tie order.  Of two keys of the ranked list that have the same      *)
(* score and the same coverage, the one that received its first            *)
(* contribution earlier (earlier answer, or earlier key of the same chosen *)
(* option) stands first: the descending sort keeps tied keys in order.     *)
(***************************************************************************)
C22_TiesInFirstContributionOrder ==
    Returned =>
        \A ab \in TiedPositions :
            ContributedBefore(sorted_scores[ab[1]][1], sorted_scores[ab[2]][1])

\* two ties at once: one between keys of different answers and one between
\* keys of the same option (question 1 option B: christianity, islam, judaism)
C22_Witness ==
    /\ Returned
    /\ \E ab \in TiedPositions :
           FirstAnswerFor(sorted_scores[ab[1]][1])
               < FirstAnswerFor(sorted_scores[ab[2]][1])
    /\ \E ab \in TiedPositions :
           FirstAnswerFor(sorted_scores[ab[1]][1])
               = FirstAnswerFor(sorted_scores[ab[2]][1])

\* every base-point value and every weight of the tables is positive
PositivePointsAndWeights ==
    /\ \A n \in DOMAIN QUESTIONS : \A o \in DOMAIN QUESTIONS[n].options :
           \A j \in DOMAIN QUESTIONS[n].options[o].points_map :
               QUESTIONS[n].options[o].points_map[j][2] >= 1
    /\ \A id \in DOMAIN QUESTION_WEIGHTS : QUESTION_WEIGHTS[id] >= 1

(***************************************************************************)
(* C23: zero-score traditions never appear.  With positive base points and *)
(* weights, every returned recommendation has score >= 1, its tradition    *)
(* has coverage >= 1 and received a contribution from a matched answer;    *)
(* the list is not filled up to three with traditions that scored nothing. *)
(***************************************************************************)
C23_NoZeroScoreRecommendation ==
    (Returned /\ PositivePointsAndWeights) =>
        \A n \in DOMAIN recommendations :
            /\ recommendations[n].score >= 1
            /\ CoverageGet(coverage, KeyOf(recommendations[n])) >= 1
            /\ ContributingAnswers(KeyOf(recommendations[n])) # {}

\* two keys were scored and one of them has a descriptor: one recommendation
\* is returned, the list is not filled up
C23_Witness ==
    /\ Returned
    /\ PositivePointsAndWeights
    /\ MatchedAnswers # {}
    /\ Len(recommendations) = 1
    /\ Len(scores) = 2

(***************************************************************************)
(* C24: with the shipped tables, for every answer list (repeated question  *)
(* ids, unknown question ids and unknown option labels included) every     *)
(* accumulated score is at most max_possible_score, and every emitted      *)
(* percentage lies in 0..100.                                              *)
(***************************************************************************)
C24_ShippedScoresWithinMax ==
    (Returned /\ QUESTIONS = QUESTIONS_shipped) =>
        /\ \A n \in DOMAIN scores : scores[n][2] <= max_possible_score
        /\ \A n \in DOMAIN recommendations :
               /\ recommendations[n].percentage >= 0
               /\ recommendations[n].percentage <= 100

\* the same question answered twice with the same option: a tradition
\* reaches the max-possible score, 100 per cent
C24_Witness ==
    /\ Returned
    /\ QUESTIONS = QUESTIONS_shipped
    /\ Len(answers) = 2
    /\ answers[1] = answers[2]
    /\ recommendations # <<>>
    /\ scores[1][2] = max_possible_score
    /\ recommendations[1].percentage = 100

\* the session holds neither user_id nor username
SessionEmpty(sess) == sess.user_id = NoValue /\ sess.username = NoValue

(***************************************************************************)
(* C26: a session that holds neither user_id nor username cannot change    *)
(* stored data.  logout leaves the session without user_id and username;   *)
(* while the session is so, submit_assessment and reset_assessment answer  *)
(* with the failure "Not logged in" and leave the users file and the       *)
(* Firestore documents as they were; and the session gets a user_id or a   *)
(* username again only by a login that succeeds.                           *)
(***************************************************************************)
C26_EmptySessionChangesNothing ==
    [][ /\ logout => SessionEmpty(session')
        /\ (SessionEmpty(session)
               /\ response'.handler \in {"submit_assessment", "reset_assessment"})
           => /\ response'.success = FALSE
              /\ response'.message = "Not logged in"
              /\ users' = users
              /\ firestore' = firestore
        /\ (SessionEmpty(session) /\ ~SessionEmpty(session'))
           => response' = Json("login", TRUE, "") ]_vars

\* after a logout, with results stored in both stores, a request to submit
\* or to reset was refused
C26_Witness ==
    /\ SessionEmpty(session)
    /\ response.handler \in {"submit_assessment", "reset_assessment"}
    /\ response.message = "Not logged in"
    /\ \E u \in DOMAIN users : users[u].results # <<>>
    /\ \E d \in DOMAIN firestore : firestore[d].results # <<>>

\* the request of worker t was a submit_assessment that answered success
SubmitSucceeded(t) ==
    /\ requests[t].handler = "submit_assessment"
    /\ requests[t].pc = "done"
    /\ requests[t].success

(***************************************************************************)
(* C21: when the last requests of the two workers are submit_assessment    *)
(* requests of two different legacy users and both have answered success,  *)
(* the record of each of the two users in the users file holds the         *)
(* answers that user posted and their results, whatever the order of the   *)
(* load_users and save_users steps of the two requests was.                *)
(***************************************************************************)
C21_NoLostUpdate ==
    ((\A t \in Workers : SubmitSucceeded(t))
        /\ requests[1].username # requests[2].username)
    => \A t \in Workers :
           /\ requests[t].username \in DOMAIN users
           /\ users[requests[t].username].answers = requests[t].posted
           /\ users[requests[t].username].results =
                  calculate_results(QUESTIONS, requests[t].posted).recommendations

(***************************************************************************)
(* C25: in every state of the users file, under every order of the steps   *)
(* of default-user initialisation, signup, submit_assessment and           *)
(* reset_assessment requests, the stored results of each user are what     *)
(* calculate_results returns for the stored answers of that user (both     *)
(* empty after signup or reset).                                           *)
(***************************************************************************)
C25_StoredResultsMatchStoredAnswers ==
    \A u \in DOMAIN users :
        users[u].results =
            calculate_results(QUESTIONS, users[u].answers).recommendations

\* both users have a stored submission, both workers have answered success
\* to a submission, and one of the two submissions is not what the file holds
C25_Witness ==
    /\ DOMAIN users = UsernamePool
    /\ \A u \in DOMAIN users : users[u].answers # <<>> /\ users[u].results # <<>>
    /\ \A t \in Workers : SubmitSucceeded(t)
    /\ requests[1].username # requests[2].username
    /\ \E t \in Workers :
           users[requests[t].username].answers # requests[t].posted

=============================================================================
